---- MODULE Spec2Model ----
(***************************************************************************)
(* Text Intelligence API (src/app.py): the cache-first synchronous         *)
(* endpoints /summarize, /qa, /rewrite over a shared Redis store, and the  *)
(* deferred path /submit, /status, /result over an RQ queue whose worker   *)
(* is a separate process writing into the same store.                      *)
(*                                                                         *)
(* Strings are sequences of characters, bytes are sequences of code        *)
(* points.  Every request runs on its own execution context; a handler is  *)
(* split at its store and adapter calls, which are the points where other  *)
(* contexts and the worker interleave.                                     *)
(***************************************************************************)
EXTENDS Integers, Sequences, FiniteSets, TLC

\* ===== Bounds =====
MaxReqs == 2      \* synchronous requests served
MaxTicks == 2     \* clock advances
MaxJobs == 1      \* job identifiers issued by submit

\* ===== Configuration =====
CACHE_TTL == 86400
STATUS_TTL == 3600
DEFAULT_MAX_LENGTH == 150
DEFAULT_MIN_LENGTH == 25

\* ===== Value universes =====
Chars == {"a"}
CharCode == [c \in Chars |-> 97]

\* text fields of the requests: the empty text and a one-character text
Texts == {<<>>} \cup {<<c>> : c \in Chars}
Tones == {"formal", "informal"}
BadTones == {"rude"}
MaxLens == {50}
MinLens == {10}
Tasks == {"summarize", "qa", "rewrite"}
\* strings an Inference Adapter may return (after .strip() where applied)
Results == {<<>>, <<"a">>}

\* str.encode("utf-8") / bytes.decode("utf-8") on the modelled alphabet
Utf8Encode(s) == [i \in 1..Len(s) |-> CharCode[s[i]]]
Utf8Decode(b) == [i \in 1..Len(b) |-> CHOOSE c \in Chars : CharCode[c] = b[i]]

\* ===== Helpers =====
\* hashlib.sha256(...).hexdigest(): a deterministic digest of the UTF-8
\* bytes, taken as collision free (bijective base-256 numeral of the bytes).
RECURSIVE Sha256Bytes(_)
Sha256Bytes(b) ==
    IF Len(b) = 0 THEN 0
    ELSE Sha256Bytes(SubSeq(b, 1, Len(b) - 1)) * 256 + b[Len(b)]

sha256_text(t) == Sha256Bytes(Utf8Encode(t))

\* variant of cache_key_for_input: the modifier is left out of the key
cache_key_no_extra(text, task, extra) ==
    "cache:" \o task \o "::" \o ToString(sha256_text(text))

\* f"cache:{task}:{extra}:{sha256_text(text)}"
cache_key_for_input(text, task, extra) ==
    "cache:" \o task \o ":" \o extra \o ":" \o ToString(sha256_text(text))

\* ===== Request bodies (JSON objects) and pydantic models =====
SummarizeBodies ==
    [text : Texts, max_length : MaxLens, min_length : MinLens]
        \cup [text : Texts]
        \cup [max_length : MaxLens]
QABodies ==
    [context : Texts, question : Texts]
        \cup {[context |-> <<"a">>], [question |-> <<"a">>]}
RewriteBodies ==
    [text : Texts, tone : Tones]
        \cup {[text |-> <<"a">>, tone |-> t] : t \in BadTones}
        \cup {[text |-> <<"a">>], [tone |-> "formal"]}

Bodies(t) ==
    CASE t = "summarize" -> SummarizeBodies
      [] t = "qa" -> QABodies
      [] t = "rewrite" -> RewriteBodies

Has(body, f) == f \in DOMAIN body

\* SummarizeRequest: text required, max_length / min_length defaulted
SummarizeRequestValid(body) == Has(body, "text")
SummarizeRequest(body) ==
    [text |-> body.text,
     max_length |-> IF Has(body, "max_length") THEN body.max_length
                    ELSE DEFAULT_MAX_LENGTH,
     min_length |-> IF Has(body, "min_length") THEN body.min_length
                    ELSE DEFAULT_MIN_LENGTH]

\* QARequest: context and question required
QARequestValid(body) == Has(body, "context") /\ Has(body, "question")
QARequest(body) == [context |-> body.context, question |-> body.question]

\* RewriteRequest: text required, tone one of the two literals
RewriteRequestValid(body) ==
    Has(body, "text") /\ Has(body, "tone") /\ body.tone \in Tones
RewriteRequest(body) == [text |-> body.text, tone |-> body.tone]

ModelValid(t, body) ==
    CASE t = "summarize" -> SummarizeRequestValid(body)
      [] t = "qa" -> QARequestValid(body)
      [] t = "rewrite" -> RewriteRequestValid(body)

ModelOf(t, body) ==
    CASE t = "summarize" -> SummarizeRequest(body)
      [] t = "qa" -> QARequest(body)
      [] t = "rewrite" -> RewriteRequest(body)

\* the key each endpoint computes from its validated request
SummarizeKey(r) == cache_key_for_input(r.text, "summarize", "")
QAKey(r) == cache_key_for_input(r.context \o r.question, "qa", "")
RewriteKey(r) == cache_key_for_input(r.text, "rewrite", r.tone)

KeyOf(t, r) ==
    CASE t = "summarize" -> SummarizeKey(r)
      [] t = "qa" -> QAKey(r)
      [] t = "rewrite" -> RewriteKey(r)

\* the arguments each endpoint hands to its Inference Adapter
SummarizeArgs(r) == <<"summarization", r.text, r.max_length, r.min_length>>
QAArgs(r) == <<"qa", r.context, r.question>>
RewriteArgs(r) == <<"rewrite", r.text, r.tone>>

AdapterArgs(t, r) ==
    CASE t = "summarize" -> SummarizeArgs(r)
      [] t = "qa" -> QAArgs(r)
      [] t = "rewrite" -> RewriteArgs(r)

\* ===== State =====
VARIABLES
    now,        \* store clock, seconds
    ticks,      \* clock advances so far
    cache,      \* Redis keys "cache:..." : key -> [val (bytes), exp]
    served,     \* synchronous requests received so far
    pc,         \* position of the request on each execution context
    task,       \* its endpoint
    body,       \* its JSON body
    result,     \* adapter result held by the handler
    resp,       \* response sent
    lookup,     \* what redis_conn.get returned to the handler
    wlog,       \* cache writes made by the request
    calls,      \* adapter invocations made by the request
    first,      \* per key: first completed miss-path dispatch of a live entry
    origin,     \* per key: the adapter invocation whose result the entry holds
    prior       \* the completed dispatch for its key a request was issued after

VARIABLES
    jobs,       \* RQ job records "rq:job:<id>": id -> [task, payload, status, ...]
    queue,      \* the RQ queue "genai": job ids waiting for the worker
    statusKey,  \* Redis keys "job:<id>:status": id -> [val, exp]
    issued,     \* job identifiers generated so far (1..issued)
    sub,        \* the submit() call in progress
    wjob,       \* the job the worker is executing, 0 when idle
    wcalls,     \* per job: the adapter invocation the worker made for it
    acted,      \* jobs a worker has acted on
    qry,        \* the status() / result() call in progress
    obs,        \* per job: the lifecycle statuses reported to clients, in order
    returned    \* job identifiers submit() has returned to a caller

VARIABLES
    up,         \* the shared store is reachable
    pipelines,  \* _pipelines of the API process: task -> pipeline instance
    built,      \* per task: pipelines constructed so far
    gp          \* the get_pipeline call in progress on each execution context

syncVars == <<cache, served, pc, task, body, result, resp, lookup, wlog,
              calls, first, origin, prior>>
jobVars == <<jobs, queue, statusKey, issued, sub, wjob, wcalls, acted, qry,
             obs, returned>>
pipeVars == <<pipelines, built, gp>>
vars == <<now, ticks, syncVars, jobVars, up, pipeVars>>

\* the API process serves requests on two independent execution contexts
Contexts == {1, 2}

NoResp == [code |-> 0, cached |-> FALSE, result |-> <<>>]
NoLookup == [found |-> FALSE, val |-> <<>>, src |-> <<>>]
NoPrior == [has |-> FALSE, val |-> <<>>, exp |-> 0]

\* ===== Result Cache (Redis GET / SETEX) =====
Live(store, k) == k \in DOMAIN store /\ store[k].exp > now

\* redis_conn.get(key): the bytes, or None when unset or expired
RedisGet(store, k) ==
    IF Live(store, k) THEN [found |-> TRUE, val |-> store[k].val]
    ELSE [found |-> FALSE, val |-> <<>>]

\* variant of RedisSetex: a live key keeps the value it has (SET ... NX)
RedisSetexNx(store, k, ttl, v) ==
    [x \in DOMAIN store \cup {k} |->
        IF x = k /\ ~Live(store, k)
        THEN [val |-> Utf8Encode(v), exp |-> now + ttl]
        ELSE store[x]]

\* redis_conn.setex(key, ttl, value): the value is stored as its UTF-8 bytes
RedisSetex(store, k, ttl, v) ==
    [x \in DOMAIN store \cup {k} |->
        IF x = k THEN [val |-> Utf8Encode(v), exp |-> now + ttl]
        ELSE store[x]]

\* Python truthiness of the value returned by get: None and b"" are falsy
Truthy(got) == got.found /\ Len(got.val) > 0

\* ===== Synchronous endpoints =====
ReqOf(c) == ModelOf(task[c], body[c])
MyKey(c) == KeyOf(task[c], ReqOf(c))
Free(c) == pc[c] = "idle"
Answered(c) == pc[c] \in {"done", "failed", "rejected"}
\* a response is handed to the client and its context recycled before the
\* process does anything else
Quiet == \A c \in Contexts : ~Answered(c)

\* FastAPI parses the body into the endpoint's model before the handler runs;
\* a body the model rejects is answered 422 and the handler never runs
Receive(c, t, b) ==
    /\ Quiet
    /\ Free(c)
    /\ \A d \in Contexts : d < c => ~Free(d)
    /\ served < MaxReqs
    /\ served' = served + 1
    /\ b \in Bodies(t)
    /\ task' = [task EXCEPT ![c] = t]
    /\ body' = [body EXCEPT ![c] = b]
    /\ IF ModelValid(t, b)
       THEN /\ pc' = [pc EXCEPT ![c] = "get"]
            /\ resp' = resp
            /\ LET k == KeyOf(t, ModelOf(t, b))
               IN prior' = [prior EXCEPT ![c] =
                     IF Live(first, k)
                     THEN [has |-> TRUE, val |-> first[k].val,
                           exp |-> first[k].exp]
                     ELSE NoPrior]
       ELSE /\ pc' = [pc EXCEPT ![c] = "rejected"]
            /\ resp' = [resp EXCEPT ![c] =
                 [code |-> 422, cached |-> FALSE, result |-> <<>>]]
            /\ prior' = prior
    /\ UNCHANGED <<jobVars, up, pipeVars>>
    /\ UNCHANGED <<now, ticks, cache, result, lookup, wlog, calls, first,
                   origin>>

\* variant of CacheLookup: a hit renews the time-to-live of the entry
CacheLookupTouch(c) ==
    /\ Quiet
    /\ up
    /\ pc[c] = "get"
    /\ LET got == RedisGet(cache, MyKey(c))
       IN /\ lookup' = [lookup EXCEPT ![c] =
               [found |-> got.found, val |-> got.val,
                src |-> IF got.found THEN origin[MyKey(c)] ELSE <<>>]]
          /\ IF Truthy(got)
             THEN /\ pc' = [pc EXCEPT ![c] = "done"]
                  /\ resp' = [resp EXCEPT ![c] =
                       [code |-> 200, cached |-> TRUE,
                        result |-> Utf8Decode(got.val)]]
                  /\ cache' = [cache EXCEPT ![MyKey(c)].exp = now + CACHE_TTL]
             ELSE /\ pc' = [pc EXCEPT ![c] = "infer"]
                  /\ resp' = resp
                  /\ cache' = cache
          /\ prior' = [prior EXCEPT ![c] =
               IF @.has /\ @.exp > now THEN @ ELSE NoPrior]
    /\ UNCHANGED <<jobVars, up, pipeVars>>
    /\ UNCHANGED <<now, ticks, served, task, body, result, wlog, calls,
                   first, origin>>

\* key = cache_key_for_input(...); cached = redis_conn.get(key); if cached: ...
CacheLookup(c) ==
    /\ Quiet
    /\ up
    /\ pc[c] = "get"
    /\ LET got == RedisGet(cache, MyKey(c))
       IN /\ lookup' = [lookup EXCEPT ![c] =
               [found |-> got.found, val |-> got.val,
                src |-> IF got.found THEN origin[MyKey(c)] ELSE <<>>]]
          /\ IF Truthy(got)
             THEN /\ pc' = [pc EXCEPT ![c] = "done"]
                  /\ resp' = [resp EXCEPT ![c] =
                       [code |-> 200, cached |-> TRUE,
                        result |-> Utf8Decode(got.val)]]
             ELSE /\ pc' = [pc EXCEPT ![c] = "infer"]
                  /\ resp' = resp
          \* a lookup made after that entry's expiry is not a later dispatch
          \* "before the TTL expires"
          /\ prior' = [prior EXCEPT ![c] =
               IF @.has /\ @.exp > now THEN @ ELSE NoPrior]
    /\ UNCHANGED <<jobVars, up, pipeVars>>
    /\ UNCHANGED <<now, ticks, cache, served, task, body, result, wlog, calls,
                   first, origin>>

\* result = summarize_text(...) / answer_question(...) / rewrite_tone(...)
Infer(c, res) ==
    /\ Quiet
    /\ pc[c] = "infer"
    /\ res \in Results
    /\ calls' = [calls EXCEPT ![c] = Append(@, AdapterArgs(task[c], ReqOf(c)))]
    /\ result' = [result EXCEPT ![c] = res]
    /\ pc' = [pc EXCEPT ![c] = "set"]
    /\ UNCHANGED <<jobVars, up, pipeVars>>
    /\ UNCHANGED <<now, ticks, cache, served, task, body, resp, lookup, wlog,
                   first, origin, prior>>

\* variant of InferFail: the failure is caught and an empty result is cached
InferFailCaching(c) ==
    /\ Quiet
    /\ up
    /\ pc[c] = "infer"
    /\ calls' = [calls EXCEPT ![c] = Append(@, AdapterArgs(task[c], ReqOf(c)))]
    /\ cache' = RedisSetex(cache, MyKey(c), CACHE_TTL, <<>>)
    /\ origin' = [x \in DOMAIN cache \cup {MyKey(c)} |->
                     IF x = MyKey(c) THEN AdapterArgs(task[c], ReqOf(c))
                     ELSE origin[x]]
    /\ wlog' = [wlog EXCEPT ![c] =
         Append(@, [key |-> MyKey(c), ttl |-> CACHE_TTL, val |-> <<>>])]
    /\ pc' = [pc EXCEPT ![c] = "failed"]
    /\ resp' = [resp EXCEPT ![c] =
         [code |-> 500, cached |-> FALSE, result |-> <<>>]]
    /\ UNCHANGED <<jobVars, up, pipeVars>>
    /\ UNCHANGED <<now, ticks, served, task, body, result, lookup, first,
                   prior>>

\* the adapter raises: the exception leaves the handler as a server error
InferFail(c) ==
    /\ Quiet
    /\ pc[c] = "infer"
    /\ calls' = [calls EXCEPT ![c] = Append(@, AdapterArgs(task[c], ReqOf(c)))]
    /\ pc' = [pc EXCEPT ![c] = "failed"]
    /\ resp' = [resp EXCEPT ![c] =
         [code |-> 500, cached |-> FALSE, result |-> <<>>]]
    /\ UNCHANGED <<jobVars, up, pipeVars>>
    /\ UNCHANGED <<now, ticks, cache, served, task, body, result, lookup,
                   wlog, first, origin, prior>>

\* redis_conn.setex(key, CACHE_TTL, result); return {"cached": False, ...}
CacheStore(c) ==
    /\ Quiet
    /\ up
    /\ pc[c] = "set"
    /\ cache' = RedisSetex(cache, MyKey(c), CACHE_TTL, result[c])
    /\ wlog' = [wlog EXCEPT ![c] =
         Append(@, [key |-> MyKey(c), ttl |-> CACHE_TTL, val |-> result[c]])]
    /\ resp' = [resp EXCEPT ![c] =
         [code |-> 200, cached |-> FALSE, result |-> result[c]]]
    /\ pc' = [pc EXCEPT ![c] = "done"]
    /\ first' = IF Live(first, MyKey(c)) THEN first
                ELSE [x \in DOMAIN first \cup {MyKey(c)} |->
                        IF x = MyKey(c)
                        THEN [val |-> result[c], exp |-> now + CACHE_TTL]
                        ELSE first[x]]
    /\ UNCHANGED <<jobVars, up, pipeVars>>
    /\ origin' = [x \in DOMAIN cache \cup {MyKey(c)} |->
                     IF x = MyKey(c) THEN calls[c][Len(calls[c])]
                     ELSE origin[x]]
    /\ UNCHANGED <<now, ticks, served, task, body, result, lookup, calls,
                   prior>>

\* the response has been sent: the execution context is recycled
Release(c) ==
    /\ Answered(c)
    /\ pc' = [pc EXCEPT ![c] = "idle"]
    /\ task' = [task EXCEPT ![c] = "none"]
    /\ body' = [body EXCEPT ![c] = <<>>]
    /\ result' = [result EXCEPT ![c] = <<>>]
    /\ resp' = [resp EXCEPT ![c] = NoResp]
    /\ lookup' = [lookup EXCEPT ![c] = NoLookup]
    /\ wlog' = [wlog EXCEPT ![c] = <<>>]
    /\ calls' = [calls EXCEPT ![c] = <<>>]
    /\ prior' = [prior EXCEPT ![c] = NoPrior]
    /\ UNCHANGED <<jobVars, up, pipeVars>>
    /\ UNCHANGED <<now, ticks, cache, served, first, origin>>

\* time passes; Redis drops the keys whose TTL has run out
Purge(store, t) == [k \in {x \in DOMAIN store : store[x].exp > t} |-> store[k]]

Tick(d) ==
    /\ Quiet
    /\ ticks < MaxTicks
    /\ ticks' = ticks + 1
    /\ now' = now + d
    /\ cache' = Purge(cache, now + d)
    /\ first' = Purge(first, now + d)
    /\ origin' = [k \in DOMAIN Purge(cache, now + d) |-> origin[k]]
    /\ UNCHANGED <<jobVars, up, pipeVars>>
    /\ UNCHANGED <<served, pc, task, body, result, resp, lookup, wlog, calls,
                   prior>>

\* ===== Job store (RQ) =====
JobIds == 1..(MaxJobs + 1)

NoSub == [pc |-> "idle", task |-> "none", id |-> 0, code |-> 0,
          status |-> "none"]
NoQry == [pc |-> "idle", op |-> "none", id |-> 0, code |-> 0,
          status |-> "none", hasResult |-> FALSE, result |-> <<>>,
          early |-> FALSE, down |-> FALSE]

\* the payloads clients submit: any JSON object is accepted as `payload: dict`
SubmitBodies(t) ==
    CASE t = "summarize" ->
           {[text |-> <<"a">>, max_length |-> 50, min_length |-> 10],
            [text |-> <<"a">>]}
      [] t = "qa" ->
           {[context |-> <<"a">>, question |-> <<"a">>], [context |-> <<"a">>]}
      [] t = "rewrite" ->
           {[text |-> <<"a">>, tone |-> "formal"]}

\* the keys process_genai_task subscripts in the payload
PayloadKeys(t) ==
    CASE t = "summarize" -> {"text", "max_length", "min_length"}
      [] t = "qa" -> {"context", "question"}
      [] t = "rewrite" -> {"text", "tone"}

\* the adapter call process_genai_task makes for (task_type, payload)
process_genai_task(t, p) ==
    CASE t = "summarize" ->
           <<"summarization", p.text, p.max_length, p.min_length>>
      [] t = "qa" -> <<"qa", p.context, p.question>>
      [] t = "rewrite" -> <<"rewrite", p.text, p.tone>>

SubQuiet == sub.pc # "answered"
QryQuiet == qry.pc # "answered"
JobsQuiet == SubQuiet /\ QryQuiet

\* variant of Enqueue: the job is run inline at enqueue time
EnqueueInline(store, id, t, p) ==
    [x \in DOMAIN store \cup {id} |->
        IF x = id
        THEN [task |-> t, payload |-> p, status |-> "finished",
              hasResult |-> TRUE, result |-> <<>>]
        ELSE store[x]]

\* queue.enqueue(process_genai_task, task_type, payload): RQ creates the job
\* record under a fresh uuid with status "queued" and pushes its id
Enqueue(store, id, t, p) ==
    [x \in DOMAIN store \cup {id} |->
        IF x = id
        THEN [task |-> t, payload |-> p, status |-> "queued",
              hasResult |-> FALSE, result |-> <<>>]
        ELSE store[x]]

\* submit_job, first store operation: job = queue.enqueue(...)
SubmitEnqueue(t, p) ==
    /\ JobsQuiet
    /\ up
    /\ sub.pc = "idle"
    /\ issued < MaxJobs
    /\ p \in SubmitBodies(t)
    /\ issued' = issued + 1
    /\ jobs' = Enqueue(jobs, issued + 1, t, p)
    /\ queue' = Append(queue, issued + 1)
    /\ sub' = [NoSub EXCEPT !.pc = "setex", !.task = t, !.id = issued + 1]
    /\ UNCHANGED <<now, ticks, statusKey, wjob, wcalls, acted, qry, obs>>
    /\ UNCHANGED <<syncVars, up, pipeVars, returned>>

\* redis_conn.setex(f"job:{job.id}:status", 3600, "queued"); return SubmitResponse
SubmitSetStatus ==
    /\ JobsQuiet
    /\ up
    /\ sub.pc = "setex"
    /\ statusKey' = [x \in DOMAIN statusKey \cup {sub.id} |->
                       IF x = sub.id
                       THEN [val |-> "queued", exp |-> now + STATUS_TTL]
                       ELSE statusKey[x]]
    /\ sub' = [sub EXCEPT !.pc = "answered", !.code = 200, !.status = "queued"]
    /\ UNCHANGED <<now, ticks, jobs, queue, issued, wjob, wcalls, acted, qry, obs>>
    /\ returned' = returned \cup {sub.id}
    /\ UNCHANGED <<syncVars, up, pipeVars>>

SubmitRelease ==
    /\ sub.pc = "answered"
    /\ sub' = NoSub
    /\ UNCHANGED <<now, ticks, jobs, queue, statusKey, issued, wjob, wcalls,
                   acted, qry, obs>>
    /\ UNCHANGED <<syncVars, up, pipeVars, returned>>

\* ----- the RQ worker (a separate process) -----
SetStatus(store, id, st) == [store EXCEPT ![id].status = st]

\* the worker takes the job at the head of the queue and marks it "started"
\* (rq.job.JobStatus.STARTED)
WorkerStart ==
    /\ JobsQuiet
    /\ up
    /\ wjob = 0
    /\ queue # <<>>
    /\ wjob' = Head(queue)
    /\ queue' = Tail(queue)
    /\ jobs' = SetStatus(jobs, Head(queue), "started")
    /\ acted' = acted \cup {Head(queue)}
    /\ UNCHANGED <<now, ticks, statusKey, issued, sub, wcalls, qry, obs>>
    /\ UNCHANGED <<syncVars, up, pipeVars, returned>>

\* process_genai_task returns: RQ stores the return value, status "finished"
WorkerFinish(res) ==
    /\ JobsQuiet
    /\ up
    /\ wjob # 0
    /\ res \in Results
    /\ PayloadKeys(jobs[wjob].task) \subseteq DOMAIN jobs[wjob].payload
    /\ wcalls' = [wcalls EXCEPT ![wjob] =
         Append(@, process_genai_task(jobs[wjob].task, jobs[wjob].payload))]
    /\ jobs' = [jobs EXCEPT ![wjob].status = "finished",
                            ![wjob].hasResult = TRUE,
                            ![wjob].result = res]
    /\ wjob' = 0
    /\ UNCHANGED <<now, ticks, queue, statusKey, issued, sub, acted, qry, obs>>
    /\ UNCHANGED <<syncVars, up, pipeVars, returned>>

\* variant of WorkerFail: the failed job is put back on the queue
WorkerFailRequeue ==
    /\ JobsQuiet
    /\ up
    /\ wjob # 0
    /\ jobs' = SetStatus(jobs, wjob, "queued")
    /\ queue' = Append(queue, wjob)
    /\ wjob' = 0
    /\ UNCHANGED <<now, ticks, statusKey, issued, sub, wcalls, acted, qry, obs>>
    /\ UNCHANGED <<syncVars, up, pipeVars, returned>>

\* process_genai_task raises (KeyError on a payload key it subscripts, or the
\* adapter fails): RQ marks the job "failed"
WorkerFail ==
    /\ JobsQuiet
    /\ up
    /\ wjob # 0
    /\ wcalls' = [wcalls EXCEPT ![wjob] =
         IF PayloadKeys(jobs[wjob].task) \subseteq DOMAIN jobs[wjob].payload
         THEN Append(@, process_genai_task(jobs[wjob].task, jobs[wjob].payload))
         ELSE @]
    /\ jobs' = SetStatus(jobs, wjob, "failed")
    /\ wjob' = 0
    /\ UNCHANGED <<now, ticks, queue, statusKey, issued, sub, acted, qry, obs>>
    /\ UNCHANGED <<syncVars, up, pipeVars, returned>>

\* the store drops the record of a job that has ended (result / failure TTL)
JobExpire(j) ==
    /\ JobsQuiet
    /\ j \in DOMAIN jobs
    /\ jobs[j].status \in {"finished", "failed"}
    /\ jobs' = [x \in DOMAIN jobs \ {j} |-> jobs[x]]
    /\ UNCHANGED <<now, ticks, queue, statusKey, issued, sub, wjob, wcalls,
                   acted, qry, obs>>
    /\ UNCHANGED <<syncVars, up, pipeVars, returned>>

\* ----- job_status / job_result -----
\* job.get_status(): re-reads the status field of the record in the store
GetStatus(store, id) ==
    IF id \in DOMAIN store THEN store[id].status ELSE "none"

\* rq.job.JobStatus values a job of this queue takes
Lifecycle == {"queued", "started", "finished", "failed"}

\* the lifecycle statuses responses report for a job, repetitions left out
Observe(o, id, st) ==
    IF st \in Lifecycle /\ id \in DOMAIN o
       /\ (o[id] = <<>> \/ o[id][Len(o[id])] # st)
    THEN [o EXCEPT ![id] = Append(@, st)]
    ELSE o

Answer(q, code, st) ==
    [q EXCEPT !.pc = "answered", !.code = code, !.status = st]

\* a client calls GET /status/{job_id} or GET /result/{job_id}
QueryStart(op, id) ==
    /\ JobsQuiet
    /\ qry.pc = "idle"
    /\ op \in {"status", "result"}
    /\ id \in JobIds
    /\ qry' = [NoQry EXCEPT !.pc = "fetch", !.op = op, !.id = id]
    /\ UNCHANGED <<now, ticks, jobs, queue, statusKey, issued, sub, wjob,
                   wcalls, acted, obs>>
    /\ UNCHANGED <<syncVars, up, pipeVars, returned>>

\* variant of QueryFetch: both endpoints degrade to "unknown"
QueryFetchUnknown ==
    /\ JobsQuiet
    /\ up
    /\ qry.pc = "fetch"
    /\ LET q == [qry EXCEPT !.early = (qry.id \notin acted)]
       IN qry' = IF qry.id \in DOMAIN jobs THEN [qry EXCEPT !.pc = "status1"]
                 ELSE Answer(q, 200, "unknown")
    /\ UNCHANGED <<now, ticks, jobs, queue, statusKey, issued, sub, wjob,
                   wcalls, acted, obs>>
    /\ UNCHANGED <<syncVars, up, pipeVars, returned>>

\* try: job = Job.fetch(job_id) except Exception: "unknown" / 404
QueryFetch ==
    /\ JobsQuiet
    /\ up
    /\ qry.pc = "fetch"
    /\ LET q == [qry EXCEPT !.early = (qry.id \notin acted)]
       IN qry' = IF qry.id \in DOMAIN jobs THEN [qry EXCEPT !.pc = "status1"]
                 ELSE IF qry.op = "status" THEN Answer(q, 200, "unknown")
                 ELSE Answer(q, 404, "none")
    /\ UNCHANGED <<now, ticks, jobs, queue, statusKey, issued, sub, wjob,
                   wcalls, acted, obs>>
    /\ UNCHANGED <<syncVars, up, pipeVars, returned>>

\* job_status: return job.get_status()
\* job_result: if job.get_status() == "finished": ...
QueryStatus1 ==
    /\ JobsQuiet
    /\ up
    /\ qry.pc = "status1"
    /\ LET st == GetStatus(jobs, qry.id)
           q == [qry EXCEPT !.early = (qry.id \notin acted)]
       IN IF qry.op = "status"
          THEN /\ qry' = Answer(q, 200, st)
               /\ obs' = Observe(obs, qry.id, st)
          ELSE /\ qry' = [q EXCEPT !.pc = IF st = "finished" THEN "result"
                                          ELSE "status2"]
               /\ obs' = obs
    /\ UNCHANGED <<now, ticks, jobs, queue, statusKey, issued, sub, wjob,
                   wcalls, acted>>
    /\ UNCHANGED <<syncVars, up, pipeVars, returned>>

\* variant of QueryResult: the record of the job is deleted once its result
\* has been handed out
QueryResultConsuming ==
    /\ JobsQuiet
    /\ up
    /\ qry.pc = "result"
    /\ qry' = [Answer(qry, 200, "finished") EXCEPT
                 !.hasResult = TRUE,
                 !.result = IF qry.id \in DOMAIN jobs THEN jobs[qry.id].result
                            ELSE <<>>]
    /\ obs' = Observe(obs, qry.id, "finished")
    /\ jobs' = [x \in DOMAIN jobs \ {qry.id} |-> jobs[x]]
    /\ UNCHANGED <<now, ticks, queue, statusKey, issued, sub, wjob,
                   wcalls, acted>>
    /\ UNCHANGED <<syncVars, up, pipeVars, returned>>

\* return {"status": "finished", "result": job.result}
QueryResult ==
    /\ JobsQuiet
    /\ up
    /\ qry.pc = "result"
    /\ qry' = [Answer(qry, 200, "finished") EXCEPT
                 !.hasResult = TRUE,
                 !.result = IF qry.id \in DOMAIN jobs THEN jobs[qry.id].result
                            ELSE <<>>]
    /\ obs' = Observe(obs, qry.id, "finished")
    /\ UNCHANGED <<now, ticks, jobs, queue, statusKey, issued, sub, wjob,
                   wcalls, acted>>
    /\ UNCHANGED <<syncVars, up, pipeVars, returned>>

\* return {"job_id": job_id, "status": job.get_status()}
QueryStatus2 ==
    /\ JobsQuiet
    /\ up
    /\ qry.pc = "status2"
    /\ LET st == GetStatus(jobs, qry.id)
       IN /\ qry' = Answer(qry, 200, st)
          /\ obs' = Observe(obs, qry.id, st)
    /\ UNCHANGED <<now, ticks, jobs, queue, statusKey, issued, sub, wjob,
                   wcalls, acted>>
    /\ UNCHANGED <<syncVars, up, pipeVars, returned>>

QueryRelease ==
    /\ qry.pc = "answered"
    /\ qry' = NoQry
    /\ UNCHANGED <<now, ticks, jobs, queue, statusKey, issued, sub, wjob,
                   wcalls, acted, obs>>
    /\ UNCHANGED <<syncVars, up, pipeVars, returned>>

\* time passes on the deferred path; Redis drops the expired status keys
TickJobs(d) ==
    /\ JobsQuiet
    /\ ticks < MaxTicks
    /\ ticks' = ticks + 1
    /\ now' = now + d
    /\ statusKey' = Purge(statusKey, now + d)
    /\ UNCHANGED <<jobs, queue, issued, sub, wjob, wcalls, acted, qry,
                   obs>>
    /\ UNCHANGED <<syncVars, up, pipeVars, returned>>

\* ===== Store outage =====
\* the shared store becomes unreachable / reachable again
StoreDown ==
    /\ JobsQuiet
    /\ up
    /\ up' = FALSE
    /\ UNCHANGED <<now, ticks, syncVars, jobVars, pipeVars>>

StoreUp ==
    /\ JobsQuiet
    /\ ~up
    /\ up' = TRUE
    /\ UNCHANGED <<now, ticks, syncVars, jobVars, pipeVars>>

\* submit_job with the store down at queue.enqueue: the redis error leaves the
\* handler (500); no job record and no queue entry are written
SubmitEnqueueFail(t, p) ==
    /\ JobsQuiet
    /\ ~up
    /\ sub.pc = "idle"
    /\ issued < MaxJobs
    /\ p \in SubmitBodies(t)
    /\ sub' = [NoSub EXCEPT !.pc = "answered", !.task = t, !.code = 500]
    /\ UNCHANGED <<now, ticks, jobs, queue, statusKey, issued, wjob, wcalls,
                   acted, qry, obs, returned>>
    /\ UNCHANGED <<syncVars, up, pipeVars>>

\* submit_job with the store down at redis_conn.setex: the redis error leaves
\* the handler (500) after queue.enqueue has been done
SubmitSetStatusFail ==
    /\ JobsQuiet
    /\ ~up
    /\ sub.pc = "setex"
    /\ sub' = [sub EXCEPT !.pc = "answered", !.code = 500]
    /\ UNCHANGED <<now, ticks, jobs, queue, statusKey, issued, wjob, wcalls,
                   acted, qry, obs, returned>>
    /\ UNCHANGED <<syncVars, up, pipeVars>>

\* Job.fetch with the store down raises a redis error, which `except Exception`
\* catches like a missing job: "unknown" / 404
QueryFetchFail ==
    /\ JobsQuiet
    /\ ~up
    /\ qry.pc = "fetch"
    /\ LET q == [qry EXCEPT !.down = TRUE]
       IN qry' = IF qry.op = "status" THEN Answer(q, 200, "unknown")
                 ELSE Answer(q, 404, "none")
    /\ UNCHANGED <<now, ticks, jobs, queue, statusKey, issued, sub, wjob,
                   wcalls, acted, obs, returned>>
    /\ UNCHANGED <<syncVars, up, pipeVars>>

\* job.get_status() / job.result with the store down, outside the try block:
\* the redis error leaves the handler (500)
QueryReadFail ==
    /\ JobsQuiet
    /\ ~up
    /\ qry.pc \in {"status1", "result", "status2"}
    /\ qry' = Answer([qry EXCEPT !.down = TRUE], 500, "none")
    /\ UNCHANGED <<now, ticks, jobs, queue, statusKey, issued, sub, wjob,
                   wcalls, acted, obs, returned>>
    /\ UNCHANGED <<syncVars, up, pipeVars>>

\* ===== Pipeline cache (get_pipeline) =====
PipeTasks == {"summarization", "qa", "rewrite"}

NoGp == [pc |-> "idle", task |-> "none", inst |-> 0]

\* a core function calls get_pipeline(task): `if task not in _pipelines`
GetPipelineCheck(c, t) ==
    /\ gp[c].pc = "idle"
    /\ t \in PipeTasks
    /\ gp' = [gp EXCEPT ![c] =
         IF t \in DOMAIN pipelines
         THEN [pc |-> "return", task |-> t, inst |-> 0]
         ELSE [pc |-> "build", task |-> t, inst |-> 0]]
    /\ UNCHANGED <<pipelines, built>>
    /\ UNCHANGED <<now, ticks, syncVars, jobVars, up>>

\* pipeline(<kind>, model=...): the model is loaded into a new instance
GetPipelineBuild(c) ==
    /\ gp[c].pc = "build"
    /\ built' = [built EXCEPT ![gp[c].task] = @ + 1]
    /\ gp' = [gp EXCEPT ![c].pc = "store", ![c].inst = built[gp[c].task] + 1]
    /\ UNCHANGED pipelines
    /\ UNCHANGED <<now, ticks, syncVars, jobVars, up>>

\* _pipelines[task] = <the new instance>
GetPipelineStore(c) ==
    /\ gp[c].pc = "store"
    /\ pipelines' = [x \in DOMAIN pipelines \cup {gp[c].task} |->
                       IF x = gp[c].task THEN gp[c].inst ELSE pipelines[x]]
    /\ gp' = [gp EXCEPT ![c].pc = "return"]
    /\ UNCHANGED built
    /\ UNCHANGED <<now, ticks, syncVars, jobVars, up>>

\* return _pipelines[task]
GetPipelineReturn(c) ==
    /\ gp[c].pc = "return"
    /\ gp' = [gp EXCEPT ![c].pc = "have", ![c].inst = pipelines[gp[c].task]]
    /\ UNCHANGED <<pipelines, built>>
    /\ UNCHANGED <<now, ticks, syncVars, jobVars, up>>

\* the caller has run the pipeline; the context is free for the next call
GetPipelineDone(c) ==
    /\ gp[c].pc = "have"
    /\ gp' = [gp EXCEPT ![c] = NoGp]
    /\ UNCHANGED <<pipelines, built>>
    /\ UNCHANGED <<now, ticks, syncVars, jobVars, up>>

\* ===== Specifications =====
InitJobVars ==
    /\ jobs = <<>>
    /\ queue = <<>>
    /\ statusKey = <<>>
    /\ issued = 0
    /\ sub = NoSub
    /\ wjob = 0
    /\ wcalls = [j \in JobIds |-> <<>>]
    /\ acted = {}
    /\ qry = NoQry
    /\ obs = [j \in JobIds |-> <<>>]
    /\ returned = {}

InitSync ==
    /\ now = 0
    /\ ticks = 0
    /\ cache = <<>>
    /\ served = 0
    /\ pc = [c \in Contexts |-> "idle"]
    /\ task = [c \in Contexts |-> "none"]
    /\ body = [c \in Contexts |-> <<>>]
    /\ result = [c \in Contexts |-> <<>>]
    /\ resp = [c \in Contexts |-> NoResp]
    /\ lookup = [c \in Contexts |-> NoLookup]
    /\ wlog = [c \in Contexts |-> <<>>]
    /\ calls = [c \in Contexts |-> <<>>]
    /\ first = <<>>
    /\ origin = <<>>
    /\ prior = [c \in Contexts |-> NoPrior]
    /\ InitJobVars
    /\ up = TRUE
    /\ pipelines = <<>>
    /\ built = [t \in PipeTasks |-> 0]
    /\ gp = [c \in Contexts |-> NoGp]

Init == InitSync

\* the synchronous dispatcher over the Result Cache
NextSync ==
    \/ \E c \in Contexts, t \in Tasks : \E b \in Bodies(t) : Receive(c, t, b)
    \/ \E c \in Contexts : CacheLookup(c)
    \/ \E c \in Contexts, res \in Results : Infer(c, res)
    \/ \E c \in Contexts : InferFail(c)
    \/ \E c \in Contexts : CacheStore(c)
    \/ \E c \in Contexts : Release(c)
    \/ Tick(CACHE_TTL \div 2)

SpecSync == Init /\ [][NextSync]_vars

\* the deferred path: submit, the worker, status and result
NextJobs ==
    \/ \E t \in Tasks : \E p \in SubmitBodies(t) : SubmitEnqueue(t, p)
    \/ SubmitSetStatus
    \/ SubmitRelease
    \/ WorkerStart
    \/ \E res \in Results : WorkerFinish(res)
    \/ WorkerFail
    \/ \E j \in JobIds : JobExpire(j)
    \/ \E op \in {"status", "result"}, id \in JobIds : QueryStart(op, id)
    \/ QueryFetch
    \/ QueryStatus1
    \/ QueryResult
    \/ QueryStatus2
    \/ QueryRelease
    \/ TickJobs(STATUS_TTL)

SpecJobs == Init /\ [][NextJobs]_vars

\* the deferred path over a store that can become unreachable
NextOutage ==
    \/ \E t \in Tasks : \E p \in SubmitBodies(t) : SubmitEnqueue(t, p)
    \/ SubmitSetStatus
    \/ SubmitRelease
    \/ WorkerStart
    \/ \E res \in Results : WorkerFinish(res)
    \/ WorkerFail
    \/ \E j \in JobIds : JobExpire(j)
    \/ \E op \in {"status", "result"}, id \in JobIds : QueryStart(op, id)
    \/ QueryFetch
    \/ QueryStatus1
    \/ QueryResult
    \/ QueryStatus2
    \/ QueryRelease
    \/ StoreDown
    \/ StoreUp
    \/ \E t \in Tasks : \E p \in SubmitBodies(t) : SubmitEnqueueFail(t, p)
    \/ SubmitSetStatusFail
    \/ QueryFetchFail
    \/ QueryReadFail

SpecOutage == Init /\ [][NextOutage]_vars

\* get_pipeline called from the request threads of the API process
NextPipelines ==
    \/ \E c \in Contexts, t \in PipeTasks : GetPipelineCheck(c, t)
    \/ \E c \in Contexts : GetPipelineBuild(c)
    \/ \E c \in Contexts : GetPipelineStore(c)
    \/ \E c \in Contexts : GetPipelineReturn(c)
    \/ \E c \in Contexts : GetPipelineDone(c)

SpecPipelines == Init /\ [][NextPipelines]_vars

\* ===== Properties =====
Handling(c) == pc[c] \in {"get", "infer", "set", "done", "failed"}
Issued == 1..issued

\* C1: once a dispatch for a key has completed successfully, every later
\* dispatch for the same (task, modifier, content) that looks the key up before
\* the entry expires answers cached = true with the result the first dispatch
\* returned, and invokes no adapter.
C1_CacheHitIdempotent ==
    \A c \in Contexts :
        (prior[c].has /\ pc[c] \in {"infer", "set", "done", "failed"}) =>
            /\ pc[c] = "done"
            /\ resp[c].cached
            /\ resp[c].result = prior[c].val
            /\ calls[c] = <<>>

\* C2: a dispatch whose adapter raises answers with a server error, has made
\* no cache write, and the failing step leaves the cache as it was; every
\* change of the cache other than expiry is the logged write of a request
\* that completes successfully.
C2_NoCachingOnFailure ==
    /\ [](\A c \in Contexts :
            pc[c] = "failed" =>
                /\ wlog[c] = <<>>
                /\ resp[c].code = 500
                /\ ~resp[c].cached)
    /\ [][\A c \in Contexts :
            (pc[c] = "infer" /\ pc'[c] = "failed") => cache' = cache]_vars
    /\ [][cache' # cache =>
            \/ now' # now
            \/ \E c \in Contexts :
                 /\ pc[c] = "set" /\ pc'[c] = "done"
                 /\ Len(wlog'[c]) = Len(wlog[c]) + 1]_vars

C2_Witness ==
    \E c \in Contexts :
        /\ pc[c] = "failed"
        /\ Len(calls[c]) = 1
        /\ ~lookup[c].found
        /\ ~Live(cache, MyKey(c))

\* C3: two qa requests whose (context, question) pairs differ get different
\* cache keys, so a qa hit returns an answer computed for the same context and
\* the same question as the request.
C3_QaKeysInjective ==
    /\ \A c, d \in Contexts :
         (/\ Handling(c) /\ Handling(d)
          /\ task[c] = "qa" /\ task[d] = "qa"
          /\ ReqOf(c) # ReqOf(d)) => MyKey(c) # MyKey(d)
    /\ \A c \in Contexts :
         (pc[c] = "done" /\ task[c] = "qa" /\ resp[c].cached) =>
             lookup[c].src = QAArgs(ReqOf(c))

\* C4: a result() response reports status "finished" exactly when it carries
\* the stored result.
C4_ResultPairsStatus ==
    (qry.pc = "answered" /\ qry.op = "result" /\ qry.code = 200) =>
        (qry.status = "finished" <=> qry.hasResult)

\* C5: for an identifier submit() never issued, status() answers normally with
\* "unknown" and result() answers 404 and never "unknown"; neither gets past
\* the fetch.
C5_UnresolvedAsymmetry ==
    /\ (qry.pc = "answered" /\ qry.id \notin Issued) =>
         IF qry.op = "status"
         THEN qry.code = 200 /\ qry.status = "unknown" /\ ~qry.hasResult
         ELSE qry.code = 404 /\ qry.status # "unknown" /\ ~qry.hasResult
    /\ qry.pc \in {"status1", "status2", "result"} => qry.id \in Issued

C5_Witness ==
    /\ issued > 0
    /\ qry.pc = "answered"
    /\ qry.id \notin Issued
    /\ qry.op = "result"
    /\ qry.code = 404

\* C6: submit() answers "queued" with the identifier it has just generated;
\* until a worker acts on a job its record stays "queued", holds no result
\* and no adapter has been invoked for it; and status() read before a worker
\* has acted on an issued job answers "queued".
C6_SubmitQueued ==
    /\ sub.pc = "answered" =>
         /\ sub.status = "queued"
         /\ sub.id = issued
         /\ Live(statusKey, sub.id) /\ statusKey[sub.id].val = "queued"
    /\ \A j \in Issued :
         j \notin acted =>
             /\ j \in DOMAIN jobs
             /\ jobs[j].status = "queued"
             /\ ~jobs[j].hasResult
             /\ wcalls[j] = <<>>
    /\ (qry.pc = "answered" /\ qry.op = "status" /\ qry.id \in Issued
        /\ qry.early) =>
         qry.code = 200 /\ qry.status = "queued"

C6_Witness ==
    /\ sub.pc = "idle"
    /\ wjob = 0
    /\ qry.pc = "answered" /\ qry.op = "status"
    /\ qry.id \in Issued /\ qry.early
    /\ qry.status = "queued"

\* C7: once submit() has returned, status() answers "unknown" when the job's
\* status record job:<id>:status is absent (never written or expired) and
\* otherwise the value that record holds.
C7_StatusReflectsStatusRecord ==
    (/\ qry.pc = "answered" /\ qry.op = "status"
     /\ ~(sub.pc = "setex" /\ sub.id = qry.id)) =>
        qry.status = IF Live(statusKey, qry.id) THEN statusKey[qry.id].val
                     ELSE "unknown"

\* the order queued -> mid -> {finished, failed} of a sequence of reported
\* lifecycle statuses
Rank(mid, st) ==
    CASE st = "queued" -> 1
      [] st = mid -> 2
      [] st \in {"finished", "failed"} -> 3
      [] OTHER -> 0

OrderedBy(mid, o) ==
    \A i \in 1..Len(o) :
        /\ o[i] \in {"queued", mid, "finished", "failed"}
        /\ i > 1 => Rank(mid, o[i - 1]) < Rank(mid, o[i])

C9_WriteCount ==
    \A c \in Contexts :
        pc[c] = "done" =>
            IF lookup[c].found
            THEN wlog[c] = <<>>
            ELSE /\ Len(wlog[c]) = 1
                 /\ wlog[c][1].key = MyKey(c)
                 /\ wlog[c][1].ttl = CACHE_TTL

\* C10: a request whose payload lacks a required field of its task is
\* rejected before any cache access, adapter call, enqueue or status write:
\* a rejected synchronous request has touched nothing, and no job record
\* holds a payload its task's model rejects.
C10_ValidationFirst ==
    /\ \A c \in Contexts :
         pc[c] = "rejected" =>
             /\ resp[c].code = 422
             /\ lookup[c] = NoLookup /\ wlog[c] = <<>> /\ calls[c] = <<>>
    /\ \A j \in DOMAIN jobs : ModelValid(jobs[j].task, jobs[j].payload)

\* C11: an answer decided by an unreachable store is a store-unavailable
\* error of its own: status() does not answer "unknown" and result() does not
\* answer not-found because the store cannot be reached.
C11_StoreUnavailableSurfaced ==
    (qry.pc = "answered" /\ qry.down) =>
        /\ ~(qry.code = 200 /\ qry.status = "unknown")
        /\ qry.code # 404

\* C12: for every payload the task's synchronous endpoint accepts, the worker
\* invokes the adapter the endpoint's miss path invokes, with the same
\* arguments (the endpoint's defaults included).
C12_DeferredMatchesInline ==
    \A j \in DOMAIN jobs :
        (/\ ModelValid(jobs[j].task, jobs[j].payload)
         /\ j \in acted /\ wjob # j) =>
            /\ Len(wcalls[j]) = 1
            /\ wcalls[j][1] =
                 AdapterArgs(jobs[j].task, ModelOf(jobs[j].task, jobs[j].payload))

\* C15: get_pipeline constructs the pipeline of a task at most once, and all
\* callers hold the same instance.
C15_PipelineLoadedOnce ==
    /\ \A t \in PipeTasks : built[t] <= 1
    /\ \A c, d \in Contexts :
         (/\ gp[c].pc = "have" /\ gp[d].pc = "have"
          /\ gp[c].task = gp[d].task) => gp[c].inst = gp[d].inst

\* C17: a summarize response with cached = true carries a summary produced by
\* an adapter call with the request's text, max_length and min_length.
C17_SummarizeHitSameRequest ==
    \A c \in Contexts :
        (pc[c] = "done" /\ task[c] = "summarize" /\ resp[c].cached) =>
            lookup[c].src = SummarizeArgs(ReqOf(c))

\* C19: when submit() ends in an error no job of that request stays enqueued,
\* and every job a worker can execute has an identifier that has been, or is
\* about to be, returned by the submit() that enqueued it.
C19_SubmitAllOrNothing ==
    /\ (sub.pc = "answered" /\ sub.code # 200) =>
         (sub.id \notin DOMAIN jobs /\ \A i \in 1..Len(queue) : queue[i] # sub.id)
    /\ \A j \in Issued :
         (wjob = j \/ \E i \in 1..Len(queue) : queue[i] = j) =>
             \/ j \in returned
             \/ (sub.pc = "setex" /\ sub.id = j)

\* the modifier a request contributes to its key: the tone, for rewrite only
Extra(c) == IF task[c] = "rewrite" THEN ReqOf(c).tone ELSE ""

\* C13: requests that differ in task or in modifier have different keys, and
\* a hit returns an entry written by the same task and, for rewrite, the same
\* tone.
C13_KeysSeparateTaskAndTone ==
    /\ \A c, d \in Contexts :
         (/\ Handling(c) /\ Handling(d)
          /\ (task[c] # task[d] \/ Extra(c) # Extra(d))) => MyKey(c) # MyKey(d)
    /\ \A c \in Contexts :
         (pc[c] = "done" /\ resp[c].cached) =>
            /\ lookup[c].src[1] = AdapterArgs(task[c], ReqOf(c))[1]
            /\ task[c] = "rewrite" => lookup[c].src[3] = ReqOf(c).tone

\* a rewrite request misses while the entry of the other tone for the same
\* text is live
C13_Witness ==
    \E c \in Contexts :
        /\ pc[c] = "infer" /\ task[c] = "rewrite" /\ ~lookup[c].found
        /\ \E k \in DOMAIN cache :
             /\ Live(cache, k)
             /\ origin[k][1] = "rewrite"
             /\ origin[k][2] = ReqOf(c).text
             /\ origin[k][3] # ReqOf(c).tone

\* C14: a handler that misses answers its own adapter result with
\* cached = false after exactly one adapter invocation, no handler invokes the
\* adapter twice, and every change of a cache entry is the write of the handler
\* completing its miss path, whose result the entry then holds: the cache
\* holds the last writer's value.
C14_ConcurrentMisses ==
    /\ [](\A c \in Contexts :
            /\ Len(calls[c]) <= 1
            /\ (pc[c] = "done" /\ ~resp[c].cached) =>
                 /\ resp[c].result = result[c]
                 /\ calls[c] = <<AdapterArgs(task[c], ReqOf(c))>>
                 /\ Live(cache, MyKey(c))
                 /\ cache[MyKey(c)].val = Utf8Encode(resp[c].result))
    /\ [][\A k \in DOMAIN cache' :
            (k \notin DOMAIN cache \/ cache'[k] # cache[k]) =>
               \E c \in Contexts :
                  /\ pc[c] = "set" /\ pc'[c] = "done" /\ MyKey(c) = k
                  /\ cache'[k].val = Utf8Encode(result[c])]_vars

\* two handlers missed the same key concurrently and the second writer
\* replaced the first writer's different value
C14_Witness ==
    \E c \in Contexts :
        /\ pc[c] = "done" /\ ~resp[c].cached /\ ~lookup[c].found
        /\ Live(first, MyKey(c))
        /\ first[MyKey(c)].val # resp[c].result
        /\ cache[MyKey(c)].val = Utf8Encode(resp[c].result)

\* C16: every step of status() and result() leaves the whole shared store
\* unchanged; the API writes no status other than "queued"; the only store
\* writes of the API are the enqueue of a new "queued" job and the "queued"
\* status record, both made by submit().
C16_QueriesReadOnly ==
    /\ [](\A j \in DOMAIN statusKey : statusKey[j].val = "queued")
    /\ [][qry' # qry => UNCHANGED <<jobs, queue, statusKey, cache>>]_vars
    /\ [][sub' # sub =>
            /\ cache' = cache
            /\ \/ UNCHANGED <<jobs, queue>>
               \/ /\ sub.pc = "idle" /\ sub'.id \notin DOMAIN jobs
                  /\ DOMAIN jobs' = DOMAIN jobs \cup {sub'.id}
                  /\ \A j \in DOMAIN jobs : jobs'[j] = jobs[j]
                  /\ jobs'[sub'.id].status = "queued"
                  /\ queue' = Append(queue, sub'.id)
            /\ \/ UNCHANGED statusKey
               \/ /\ sub.pc = "setex"
                  /\ DOMAIN statusKey' = DOMAIN statusKey \cup {sub.id}
                  /\ \A j \in DOMAIN statusKey \ {sub.id} :
                       statusKey'[j] = statusKey[j]
                  /\ statusKey'[sub.id].val = "queued"]_vars

\* result() has handed out the result of a finished job whose record is still
\* in the store
C16_Witness ==
    /\ qry.pc = "answered" /\ qry.op = "result" /\ qry.code = 200
    /\ qry.hasResult
    /\ qry.id \in DOMAIN jobs
    /\ jobs[qry.id].status = "finished"
    /\ qry.id \in DOMAIN statusKey

====
